---- MODULE Spec2Model ----
(***************************************************************************)
(* A state-machine model of sdk_utils/baidu_cloud.py (BaiduCloudClient).   *)
(*                                                                         *)
(* The state is the client's credentials, a wall clock (whole seconds, as  *)
(* int(time.time()) reads it), the local file system as far as upload and  *)
(* download touch it, and the position of the one call in progress.  The   *)
(* variable log is the event trace of the call in progress: one "check"    *)
(* event per _check_token call and one "request" event per HTTP request    *)
(* handed to the session, with the response the vendor gave.  It is kept   *)
(* until the caller has the call's result.                                 *)
(*                                                                         *)
(* Three further specifications share the client's code with Spec: SpecAuth*)
(* (the OAuth entry points of clients with different app keys),            *)
(* SpecRoundTrip (the vendor stores what upload sends and serves it to     *)
(* download) and SpecRace (two threads call token-gated methods of one     *)
(* client, statement by statement).                                        *)
(*                                                                         *)
(* The vendor is the environment: every response (a JSON payload, an HTTP  *)
(* status where the code reads it, or a transport exception) is chosen     *)
(* nondeterministically.  A token field the OAuth endpoint sends is a      *)
(* non-empty string.                                                       *)
(***************************************************************************)
EXTENDS Integers, Sequences, FiniteSets, TLC

VARIABLES
    access_token,       \* self.access_token
    refresh_token,      \* self.refresh_token
    auto_refresh,       \* self.auto_refresh
    token_expire_time,  \* self.token_expire_time
    now,                \* int(time.time())
    op,                 \* the public method being run ("none" before the first)
    pc,                 \* its position
    result,             \* what it returned or raised
    log,                \* events of the call in progress
    last_refresh,       \* history: the last refresh that stored a token
    file,               \* upload: the local file named by local_path
    upload_id,          \* _upload_large_file: upload_id
    block_list,         \* _upload_large_file: block_list
    block_index,        \* _upload_large_file: block_index
    pos,                \* _upload_large_file: read offset of f
    download_link,      \* download_file: download_link
    local_dir,          \* download: the parent directory of local_path exists
    local_file,         \* download: the file at local_path
    body,               \* download_file: the content of response
    received,           \* download_file: blocks taken from iter_content
    app_key,            \* self.app_key
    uploaded,           \* vendor store: the local file whose upload it stored last
    parts,              \* vendor store: chunks received, by partseq
    remote,             \* vendor store: the content kept at the remote path
    callers,            \* threads: position and locals of each calling thread
    lock,               \* threads: the holder of the callers' mutex (0: free)
    locking,            \* threads: the callers wrap their calls in the mutex
    valid_rt,           \* vendor: the refresh token it last issued
    issued              \* vendor: how many refresh tokens it has issued

vars == <<access_token, refresh_token, auto_refresh, token_expire_time, now,
          op, pc, result, log, last_refresh, file, upload_id, block_list,
          block_index, pos, download_link, local_dir, local_file, body,
          received, app_key, uploaded, parts, remote, callers, lock, locking,
          valid_rt, issued>>

client_vars == <<access_token, refresh_token, auto_refresh, token_expire_time>>
upload_vars == <<file, upload_id, block_list, block_index, pos>>
download_vars == <<download_link, local_dir, local_file, body, received>>
call_vars == <<op, pc, result, log, last_refresh>>
vendor_vars == <<uploaded, parts, remote>>
thread_vars == <<callers, lock, locking, valid_rt, issued>>

(***************************************************************************)
(* Bounds of the model.                                                    *)
(***************************************************************************)
StartTime == 100
MaxTicks == 3
MaxBlocks == 3
MaxBody == 2
MaxRefreshes == 2

(***************************************************************************)
(* Program constants.                                                      *)
(***************************************************************************)
RefreshMargin == 60
ChunkSize == 4 * 1024 * 1024
DefaultChunkSize == 1024 * 1024
NoUploadIdErrno == -1

(***************************************************************************)
(* Values.                                                                 *)
(***************************************************************************)
None == "<None>"
Absent == "<absent>"
Falsy_none_only(x) == x = None
Falsy(x) == x = None \/ x = ""

ConstructorTokens == {None, "", "A0"}
ConstructorRefreshTokens == {None, "", "R0"}
ExpiresInValues == {RefreshMargin, RefreshMargin + 2}
UploadIds == {"U1", "U2"}

Min(a, b) == IF a < b THEN a ELSE b

NoExc == "<no exception>"
NoAccessToken == "ValueError: no access_token"
NoRefreshToken == "ValueError: no refresh_token"
TransportError == "requests.RequestException"
FileNotFound == "FileNotFoundError"

NoResult == [kind |-> "none"]
Raise(e) == [kind |-> "raise", exc |-> e]
Return(v) == [kind |-> "return", value |-> v]

(***************************************************************************)
(* Responses.  A response is a transport exception or a status with a JSON *)
(* payload; a payload is a record whose domain is the keys it has.         *)
(***************************************************************************)
Failed == [exc |-> TRUE, status |-> 0, json |-> [none |-> 0]]
Answer(status, payload) == [exc |-> FALSE, status |-> status, json |-> payload]

TokenPayloads ==
    {[error |-> "invalid_grant"]}
    \cup {[access_token |-> "A1"], [access_token |-> "A1", refresh_token |-> "R1"]}
    \cup {[access_token |-> "A1", expires_in |-> e] : e \in ExpiresInValues}
    \cup {[access_token |-> "A1", refresh_token |-> "R1", expires_in |-> e] :
              e \in ExpiresInValues}
TokenResponses == {Failed} \cup {Answer(200, p) : p \in TokenPayloads}

VendorPayloads(id) ==
    {[errno |-> 0, request_id |-> id], [errno |-> 31064, request_id |-> id]}
VendorResponses(id) == {Failed} \cup {Answer(200, p) : p \in VendorPayloads(id)}

(***************************************************************************)
(* Events of a call.                                                       *)
(***************************************************************************)
CheckEvent == [ev |-> "check"]
Request(api, token, params, resp) ==
    [ev |-> "request", api |-> api, access_token |-> token, params |-> params,
     resp |-> resp]
IsRequest(e) == e.ev = "request"
Requests(l) == SelectSeq(l, IsRequest)
CarriesToken(e) == IsRequest(e) /\ e.access_token # Absent
Last(l) == l[Len(l)]
\* The vendor answered request e, and not with an error
Succeeded(e) ==
    ~e.resp.exc /\ ("errno" \in DOMAIN e.resp.json => e.resp.json.errno = 0)

(***************************************************************************)
(* BaiduCloudClient.refresh_access_token and _check_token as functions of  *)
(* the credentials c, the clock t and the vendor's answer resp to the      *)
(* refresh request, should one be sent.  Each yields the exception raised  *)
(* (or NoExc), the credentials afterwards, the events, the value returned. *)
(***************************************************************************)
Creds == [access_token |-> access_token, refresh_token |-> refresh_token,
          token_expire_time |-> token_expire_time]

RefreshRequest(c, resp) ==
    Request("oauth/2.0/token", Absent,
            [grant_type |-> "refresh_token", refresh_token |-> c.refresh_token],
            resp)

store_refreshed_get(c, t, res) ==
    IF "access_token" \in DOMAIN res
    THEN [access_token |-> res.access_token,
          refresh_token |-> IF "refresh_token" \in DOMAIN res
                            THEN res.refresh_token ELSE None,
          token_expire_time |-> IF "expires_in" \in DOMAIN res
                                THEN t + res.expires_in
                                ELSE c.token_expire_time]
    ELSE c

store_refreshed_default_expiry(c, t, res) ==
    IF "access_token" \in DOMAIN res
    THEN [access_token |-> res.access_token,
          refresh_token |-> IF "refresh_token" \in DOMAIN res
                            THEN res.refresh_token ELSE c.refresh_token,
          token_expire_time |-> IF "expires_in" \in DOMAIN res
                                THEN t + res.expires_in
                                ELSE t + 2592000]
    ELSE c

store_refreshed_reset(c, t, res) ==
    IF "access_token" \in DOMAIN res
    THEN [access_token |-> res.access_token,
          refresh_token |-> IF "refresh_token" \in DOMAIN res
                            THEN res.refresh_token ELSE c.refresh_token,
          token_expire_time |-> IF "expires_in" \in DOMAIN res
                                THEN t + res.expires_in
                                ELSE c.token_expire_time]
    ELSE [c EXCEPT !.token_expire_time = 0]

store_refreshed_keep(c, t, res) ==
    IF "access_token" \in DOMAIN res
    THEN [access_token |-> res.access_token,
          refresh_token |-> c.refresh_token,
          token_expire_time |-> IF "expires_in" \in DOMAIN res
                                THEN t + res.expires_in
                                ELSE c.token_expire_time]
    ELSE c

store_refreshed(c, t, res) ==
    IF "access_token" \in DOMAIN res
    THEN [access_token |-> res.access_token,
          refresh_token |-> IF "refresh_token" \in DOMAIN res
                            THEN res.refresh_token ELSE c.refresh_token,
          token_expire_time |-> IF "expires_in" \in DOMAIN res
                                THEN t + res.expires_in
                                ELSE c.token_expire_time]
    ELSE c

refresh_access_token_unguarded(c, t, resp) ==
    IF resp.exc
    THEN [raised |-> TransportError, creds |-> c,
          events |-> <<RefreshRequest(c, resp)>>, value |-> [none |-> 0]]
    ELSE [raised |-> NoExc, creds |-> store_refreshed(c, t, resp.json),
          events |-> <<RefreshRequest(c, resp)>>, value |-> resp.json]

refresh_access_token(c, t, resp) ==
    IF Falsy(c.refresh_token)
    THEN [raised |-> NoRefreshToken, creds |-> c, events |-> <<>>,
          value |-> [none |-> 0]]
    ELSE IF resp.exc
    THEN [raised |-> TransportError, creds |-> c,
          events |-> <<RefreshRequest(c, resp)>>, value |-> [none |-> 0]]
    ELSE [raised |-> NoExc, creds |-> store_refreshed(c, t, resp.json),
          events |-> <<RefreshRequest(c, resp)>>, value |-> resp.json]

NearExpiry_late(expire, t) == expire > 0 /\ t > expire - RefreshMargin
NearExpiry_unknown(expire, t) == t >= expire - RefreshMargin
NearExpiry(expire, t) == expire > 0 /\ t >= expire - RefreshMargin

check_token_unguarded(c, auto, t, resp) ==
    IF NearExpiry(c.token_expire_time, t) /\ auto
    THEN LET r == refresh_access_token(c, t, resp)
         IN  [r EXCEPT !.events = <<CheckEvent>> \o r.events]
    ELSE [raised |-> NoExc, creds |-> c, events |-> <<CheckEvent>>,
          value |-> [none |-> 0]]

check_token(c, auto, t, resp) ==
    IF Falsy(c.access_token)
    THEN [raised |-> NoAccessToken, creds |-> c, events |-> <<CheckEvent>>,
          value |-> [none |-> 0]]
    ELSE IF NearExpiry(c.token_expire_time, t) /\ auto
    THEN LET r == refresh_access_token(c, t, resp)
         IN  [r EXCEPT !.events = <<CheckEvent>> \o r.events]
    ELSE [raised |-> NoExc, creds |-> c, events |-> <<CheckEvent>>,
          value |-> [none |-> 0]]

\* History: the time and expires_in of the refresh among events that stored
\* a token, when it is the last event that wrote the credentials.
NoRefresh == [known |-> FALSE, at |-> 0, expires_in |-> 0]
Stored(events, t) ==
    LET rs == SelectSeq(events, LAMBDA e : IsRequest(e) /\ ~e.resp.exc
                                   /\ "access_token" \in DOMAIN e.resp.json)
    IN  IF rs = <<>> THEN last_refresh
        ELSE IF "expires_in" \in DOMAIN rs[1].resp.json
        THEN [known |-> TRUE, at |-> t, expires_in |-> rs[1].resp.json.expires_in]
        ELSE NoRefresh

SetCreds(c) ==
    /\ access_token' = c.access_token
    /\ refresh_token' = c.refresh_token
    /\ token_expire_time' = c.token_expire_time
    /\ UNCHANGED auto_refresh

(***************************************************************************)
(* The public methods.                                                     *)
(***************************************************************************)
PassThroughOps ==
    {"get_user_info", "get_quota", "list_files", "search_files",
     "get_file_info", "create_directory", "delete_files", "rename_file",
     "move_files", "copy_files", "create_share", "list_shares", "cancel_share"}
GatedOps == PassThroughOps \cup {"get_download_link", "download_file", "upload_file"}

Api(o) ==
    CASE o = "get_user_info" -> "xpan/nas?method=uinfo"
      [] o = "get_quota" -> "api/quota"
      [] o = "list_files" -> "xpan/file?method=list"
      [] o = "search_files" -> "xpan/file?method=search"
      [] o = "get_file_info" -> "xpan/multimedia?method=filemetas"
      [] o = "create_directory" -> "xpan/file?method=create"
      [] o = "delete_files" -> "xpan/file?method=filemanager&opera=delete"
      [] o = "rename_file" -> "xpan/file?method=filemanager&opera=rename"
      [] o = "move_files" -> "xpan/file?method=filemanager&opera=move"
      [] o = "copy_files" -> "xpan/file?method=filemanager&opera=copy"
      [] o = "create_share" -> "xpan/share?method=set"
      [] o = "list_shares" -> "xpan/share?method=list"
      [] o = "cancel_share" -> "xpan/share?method=cancel"

Idle == pc = "idle"

(***************************************************************************)
(* The local file system.  A chunk of a file is the byte range read; its   *)
(* MD5 is a value that determines the bytes hashed.                        *)
(***************************************************************************)
NoFile == [exists |-> FALSE, size |-> 0]
FileSizes ==
    {0, 100} \cup {k * ChunkSize : k \in 1..MaxBlocks}
             \cup {k * ChunkSize + 1 : k \in 1..(MaxBlocks - 1)}
Files == {NoFile} \cup {[exists |-> TRUE, size |-> s] : s \in FileSizes}

\* The file at local_path: old says it still holds what it held before the
\* call, blocks and content what the call has written to it.
NoLocalFile == [exists |-> FALSE, old |-> FALSE, blocks |-> 0, content |-> <<>>]
OldLocalFile == [exists |-> TRUE, old |-> TRUE, blocks |-> 0, content |-> <<>>]
LocalPaths == {[dir |-> FALSE, file |-> NoLocalFile],
               [dir |-> TRUE, file |-> NoLocalFile],
               [dir |-> TRUE, file |-> OldLocalFile]}

\* Bytes are named by their place in the local file they were read from:
\* f.read(n) at offset p, and a content is a sequence of such pieces.
read_from_start(size, p, n) == [off |-> 0, len |-> Min(n, size - p)]
read(size, p, n) == [off |-> p, len |-> Min(n, size - p)]
hashlib_md5(chunk) == [md5 |-> chunk]

RECURSIVE Size(_)
Size(c) == IF c = <<>> THEN 0 ELSE Head(c).len + Size(Tail(c))

\* The n bytes of content c from offset from on (fewer at its end)
RECURSIVE Slice(_, _, _)
Slice(c, from, n) ==
    IF c = <<>> \/ n <= 0 THEN <<>>
    ELSE LET h == Head(c) IN
         IF from >= h.len THEN Slice(Tail(c), from - h.len, n)
         ELSE LET take == Min(n, h.len - from) IN
              <<[off |-> h.off + from, len |-> take]>> \o Slice(Tail(c), 0, n - take)

\* response.iter_content(chunk_size): the number of blocks of a body, and its
\* block number k (from 0)
NBlocks(b, chunk_size) == (Size(b) + chunk_size - 1) \div chunk_size
Block(b, k, chunk_size) == Slice(b, k * chunk_size, chunk_size)

NoUpload ==
    /\ file' = NoFile
    /\ upload_id' = ""
    /\ block_list' = <<>>
    /\ block_index' = 0
    /\ pos' = 0
NoDownload ==
    /\ download_link' = ""
    /\ local_dir' = FALSE
    /\ local_file' = NoLocalFile
    /\ body' = <<>>
    /\ received' = 0

\* What no action of the client changes: the app key, and the vendor's store
\* and the calling threads where the specification has none.
Fixed == UNCHANGED <<app_key, vendor_vars, thread_vars>>

NoPart == [off |-> 0, len |-> 0]
NoRemote == [stored |-> FALSE, content |-> <<>>]
NoParts == [i \in 0..MaxBlocks |-> NoPart]
IdleCaller == [pc |-> "idle", expiry |-> 0, params |-> None, stale |-> FALSE,
               refreshed |-> FALSE]
Threads == {1, 2}
AppKeys == {"app_key_1", "app_key_2"}

\* BaiduCloudClient(app_key, secret_key, access_token, refresh_token,
\* auto_refresh), and no call yet
Constructed ==
    /\ access_token \in ConstructorTokens
    /\ refresh_token \in ConstructorRefreshTokens
    /\ auto_refresh \in BOOLEAN
    /\ token_expire_time = 0
    /\ now = StartTime
    /\ op = "none"
    /\ pc = "idle"
    /\ result = NoResult
    /\ log = <<>>
    /\ last_refresh = NoRefresh
    /\ file = NoFile
    /\ upload_id = ""
    /\ block_list = <<>>
    /\ block_index = 0
    /\ pos = 0
    /\ download_link = ""
    /\ local_dir = FALSE
    /\ local_file = NoLocalFile
    /\ body = <<>>
    /\ received = 0
NoVendor ==
    /\ uploaded = NoFile
    /\ parts = NoParts
    /\ remote = NoRemote
NoThreads ==
    /\ callers = [t \in Threads |-> IdleCaller]
    /\ lock = 0
    /\ locking = FALSE
    /\ valid_rt = None
    /\ issued = 0

Init ==
    /\ Constructed
    /\ app_key = "app_key_1"
    /\ NoVendor
    /\ NoThreads

\* The vendor's possible answers to the refresh request a call of
\* refresh_access_token sends, and to the one _check_token may cause.
RefreshAnswers == IF Falsy(refresh_token) THEN {Failed} ELSE TokenResponses
CheckAnswers ==
    IF check_token(Creds, auto_refresh, now, Failed).events = <<CheckEvent>>
    THEN {Failed} ELSE TokenResponses

\* time.time() moves on, between any two steps of the program.
Tick ==
    /\ now < StartTime + MaxTicks
    /\ now' = now + 1
    /\ UNCHANGED <<client_vars, op, pc, result, log, last_refresh, upload_vars,
                   download_vars>>

\* get_auth_url(redirect_uri, scope): the URL as the sequence of the strings
\* the f-strings and join put together
AuthorizeUrl == "https://openapi.baidu.com/oauth/2.0/authorize"
DefaultScope == "basic,netdisk"
RedirectUris == {"https://example.com/callback", "oob"}
Scopes == {"basic", "basic,netdisk,super"}

RECURSIVE Join(_, _)
Join(sep, strs) ==
    IF strs = <<>> THEN <<>>
    ELSE IF Len(strs) = 1 THEN strs[1]
    ELSE strs[1] \o <<sep>> \o Join(sep, Tail(strs))

auth_params_secret(key, redirect_uri, scope) ==
    <<<<"client_id", "secret_key">>, <<"response_type", "code">>,
      <<"redirect_uri", redirect_uri>>, <<"scope", scope>>>>
auth_params(key, redirect_uri, scope) ==
    <<<<"client_id", key>>, <<"response_type", "code">>,
      <<"redirect_uri", redirect_uri>>, <<"scope", scope>>>>

auth_url(params) ==
    <<AuthorizeUrl, "?">>
    \o Join("&", [i \in 1..Len(params) |-> <<params[i][1], "=", params[i][2]>>])

get_auth_url ==
    /\ Idle
    /\ \E redirect_uri \in RedirectUris, scope_arg \in Scopes \cup {Absent} :
         LET scope == IF scope_arg = Absent THEN DefaultScope ELSE scope_arg IN
         /\ log' = <<[ev |-> "call", redirect_uri |-> redirect_uri,
                      scope |-> scope_arg]>>
         /\ result' = Return([str |-> auth_url(auth_params(app_key, redirect_uri,
                                                           scope))])
    /\ op' = "get_auth_url"
    /\ pc' = "done"
    /\ NoUpload /\ NoDownload
    /\ UNCHANGED <<client_vars, now, last_refresh>>

\* get_access_token(code, redirect_uri)
get_access_token ==
    /\ Idle
    /\ \E resp \in TokenResponses :
         LET res == resp.json
             stored == ~resp.exc /\ "access_token" \in DOMAIN res
         IN
         /\ op' = "get_access_token"
         /\ pc' = "done"
         /\ log' = <<Request("oauth/2.0/token", Absent,
                             [grant_type |-> "authorization_code"], resp)>>
         /\ result' = IF resp.exc THEN Raise(TransportError) ELSE Return(res)
         /\ access_token' = IF stored THEN res.access_token ELSE access_token
         /\ refresh_token' =
              IF stored
              THEN IF "refresh_token" \in DOMAIN res THEN res.refresh_token ELSE None
              ELSE refresh_token
         /\ token_expire_time' =
              IF stored /\ "expires_in" \in DOMAIN res
              THEN now + res.expires_in ELSE token_expire_time
         /\ last_refresh' = IF stored THEN NoRefresh ELSE last_refresh
    /\ NoUpload /\ NoDownload
    /\ UNCHANGED <<auto_refresh, now>>

\* refresh_access_token() called by the user
call_refresh_access_token ==
    /\ Idle
    /\ \E resp \in RefreshAnswers :
         LET r == refresh_access_token(Creds, now, resp) IN
         /\ op' = "refresh_access_token"
         /\ pc' = "done"
         /\ log' = r.events
         /\ result' = IF r.raised # NoExc THEN Raise(r.raised) ELSE Return(r.value)
         /\ SetCreds(r.creds)
         /\ last_refresh' = Stored(r.events, now)
    /\ NoUpload /\ NoDownload
    /\ UNCHANGED now

\* self._check_token() as the first statement of public method o; the call
\* goes on at position next unless the check raises.
Enter(o, next) ==
    /\ Idle
    /\ \E resp \in CheckAnswers :
         LET r == check_token(Creds, auto_refresh, now, resp) IN
         /\ op' = o
         /\ log' = r.events
         /\ SetCreds(r.creds)
         /\ last_refresh' = Stored(r.events, now)
         /\ IF r.raised # NoExc
            THEN pc' = "done" /\ result' = Raise(r.raised)
            ELSE pc' = next /\ result' = NoResult
    /\ UNCHANGED now

Begin_unchecked(o) ==
    /\ Idle
    /\ op' = o
    /\ log' = <<>>
    /\ pc' = "request"
    /\ result' = NoResult
    /\ NoUpload /\ NoDownload
    /\ UNCHANGED <<client_vars, now, last_refresh>>

\* The first lines of a pass-through method
Begin(o) ==
    /\ Enter(o, "request")
    /\ NoUpload /\ NoDownload

SendRequest_raising ==
    /\ pc = "request"
    /\ op \in PassThroughOps
    /\ \E resp \in VendorResponses(Len(log) + 1) :
         /\ log' = Append(log, Request(Api(op), access_token, [none |-> 0], resp))
         /\ result' = IF resp.exc THEN Raise(TransportError)
                      ELSE IF "errno" \in DOMAIN resp.json /\ resp.json.errno # 0
                      THEN Raise("vendor error")
                      ELSE Return(resp.json)
    /\ pc' = "done"
    /\ UNCHANGED <<client_vars, now, op, last_refresh, upload_vars, download_vars>>

\* The rest of a pass-through method: one request, return response.json()
SendRequest ==
    /\ pc = "request"
    /\ op \in PassThroughOps
    /\ \E resp \in VendorResponses(Len(log) + 1) :
         /\ log' = Append(log, Request(Api(op), access_token, [none |-> 0], resp))
         /\ result' = IF resp.exc THEN Raise(TransportError) ELSE Return(resp.json)
    /\ pc' = "done"
    /\ UNCHANGED <<client_vars, now, op, last_refresh, upload_vars, download_vars>>

(***************************************************************************)
(* upload_file                                                             *)
(***************************************************************************)
IsError_other_key(res) == "error_code" \in DOMAIN res /\ res.error_code # 0
IsError_negative(res) == "errno" \in DOMAIN res /\ res.errno < 0
IsError(res) == "errno" \in DOMAIN res /\ res.errno # 0
UseChunks_from(file_size) == file_size >= ChunkSize
UseChunks(file_size) == file_size > ChunkSize

ChunkPayloads(id) == VendorPayloads(id) \cup {[md5 |-> "etag", request_id |-> id]}
ChunkResponses(id) == {Failed} \cup {Answer(200, p) : p \in ChunkPayloads(id)}
PrecreatePayloads(id) ==
    {[errno |-> 0, uploadid |-> u, request_id |-> id] : u \in UploadIds \cup {""}}
    \cup {[errno |-> 0, request_id |-> id], [errno |-> 31064, request_id |-> id]}
PrecreateResponses(id) == {Failed} \cup {Answer(200, p) : p \in PrecreatePayloads(id)}

\* The parameters _upload_chunk and _create_file send
ChunkParams_from_one(id, index, chunk) ==
    [path |-> "remote_path", uploadid |-> id, partseq |-> index + 1, file |-> chunk]
CreateParams_no_blocks(size, id, blocks) ==
    [path |-> "remote_path", size |-> size, uploadid |-> id, block_list |-> <<>>,
     ondup |-> "overwrite"]
ChunkParams(id, index, chunk) ==
    [path |-> "remote_path", uploadid |-> id, partseq |-> index, file |-> chunk]
CreateParams(size, id, blocks) ==
    [path |-> "remote_path", size |-> size, uploadid |-> id, block_list |-> blocks,
     ondup |-> "overwrite"]

\* upload_file up to the choice of the path
upload_file ==
    /\ \E f \in Files :
         /\ Enter("upload_file",
                  IF ~f.exists THEN "no file"
                  ELSE IF UseChunks(f.size) THEN "precreate" ELSE "small")
         /\ file' = IF pc' = "done" THEN NoFile ELSE f
    /\ upload_id' = ""
    /\ block_list' = <<>>
    /\ block_index' = 0
    /\ pos' = 0
    /\ NoDownload

\* upload_file: raise FileNotFoundError
upload_no_file ==
    /\ pc = "no file"
    /\ pc' = "done"
    /\ result' = Raise(FileNotFound)
    /\ UNCHANGED <<client_vars, now, op, log, last_refresh, upload_vars, download_vars>>

upload_small_file ==
    /\ pc = "small"
    /\ \E resp \in VendorResponses(Len(log) + 1) :
         /\ log' = Append(log, Request("xpan/file?method=upload", access_token,
                                       [path |-> "remote_path", ondup |-> "overwrite",
                                        file |-> read(file.size, 0, file.size)],
                                       resp))
         /\ result' = IF resp.exc THEN Raise(TransportError) ELSE Return(resp.json)
    /\ pc' = "done"
    /\ UNCHANGED <<client_vars, now, op, last_refresh, upload_vars, download_vars>>

\* _upload_large_file up to the chunk loop: _precreate_file and the upload id
precreate_file ==
    /\ pc = "precreate"
    /\ \E resp \in PrecreateResponses(Len(log) + 1) :
         LET precreate_result == resp.json
             id == IF "uploadid" \in DOMAIN precreate_result
                   THEN precreate_result.uploadid ELSE ""
         IN
         /\ log' = Append(log, Request("xpan/file?method=precreate", access_token,
                                       [path |-> "remote_path", size |-> file.size,
                                        block_list |-> <<>>, ondup |-> "overwrite"],
                                       resp))
         /\ IF resp.exc
            THEN pc' = "done" /\ result' = Raise(TransportError) /\ UNCHANGED upload_id
            ELSE IF IsError(precreate_result)
            THEN pc' = "done" /\ result' = Return(precreate_result)
                 /\ UNCHANGED upload_id
            ELSE IF Falsy(id)
            THEN pc' = "done" /\ UNCHANGED upload_id
                 /\ result' = Return([errno |-> NoUploadIdErrno, errmsg |-> "no upload id"])
            ELSE pc' = "chunk" /\ result' = NoResult /\ upload_id' = id
    /\ UNCHANGED <<client_vars, now, op, last_refresh, file, block_list, block_index,
                   pos, download_vars>>

\* One turn of the chunk loop that reads a chunk: _upload_chunk
upload_chunk ==
    /\ pc = "chunk"
    /\ LET chunk == read(file.size, pos, ChunkSize) IN
       /\ chunk.len > 0
       /\ \E resp \in ChunkResponses(Len(log) + 1) :
            /\ log' = Append(log, Request("xpan/file?method=upload", access_token,
                                          ChunkParams(upload_id, block_index, chunk),
                                          resp))
            /\ IF resp.exc
               THEN pc' = "done" /\ result' = Raise(TransportError)
                    /\ UNCHANGED <<block_list, block_index, pos>>
               ELSE IF IsError(resp.json)
               THEN pc' = "done" /\ result' = Return(resp.json)
                    /\ UNCHANGED <<block_list, block_index, pos>>
               ELSE /\ block_list' = Append(block_list, hashlib_md5(chunk))
                    /\ block_index' = block_index + 1
                    /\ pos' = pos + chunk.len
                    /\ UNCHANGED <<pc, result>>
    /\ UNCHANGED <<client_vars, now, op, last_refresh, file, upload_id, download_vars>>

\* The turn of the chunk loop that reads nothing, and _create_file
create_file ==
    /\ pc = "chunk"
    /\ read(file.size, pos, ChunkSize).len = 0
    /\ \E resp \in VendorResponses(Len(log) + 1) :
         /\ log' = Append(log, Request("xpan/file?method=create", access_token,
                                       CreateParams(file.size, upload_id, block_list),
                                       resp))
         /\ result' = IF resp.exc THEN Raise(TransportError) ELSE Return(resp.json)
    /\ pc' = "done"
    /\ UNCHANGED <<client_vars, now, op, last_refresh, upload_vars, download_vars>>

(***************************************************************************)
(* get_download_link and download_file                                     *)
(***************************************************************************)
DlinkResponses(id) ==
    {Failed, Answer(404, [errno |-> 31066, request_id |-> id]),
     Answer(200, [errno |-> 31066, request_id |-> id]),
     Answer(200, [errno |-> 0, dlink |-> "", request_id |-> id]),
     Answer(200, [errno |-> 0, dlink |-> "https://d.pcs.baidu.com/file",
                  request_id |-> id])}
BodySizes == {0} \cup {(k - 1) * DefaultChunkSize + 1 : k \in 1..MaxBody}
Bodies == {<<[off |-> 0, len |-> n]>> : n \in BodySizes}
BodyResponses ==
    {Failed, Answer(403, [none |-> 0])} \cup {Answer(200, [content |-> b]) : b \in Bodies}

get_download_link == Enter("get_download_link", "dlink") /\ NoUpload /\ NoDownload

download_file ==
    /\ Enter("download_file", "dlink")
    /\ \E p \in LocalPaths :
         /\ local_dir' = (pc' # "done" /\ p.dir)
         /\ local_file' = IF pc' = "done" THEN NoLocalFile ELSE p.file
    /\ download_link' = ""
    /\ body' = <<>>
    /\ received' = 0
    /\ NoUpload

\* get_download_link after the check, and what download_file does with the link
request_download_link ==
    /\ pc = "dlink"
    /\ \E resp \in DlinkResponses(Len(log) + 1) :
         LET link == IF resp.status = 200 /\ "dlink" \in DOMAIN resp.json
                     THEN resp.json.dlink ELSE ""
         IN
         /\ log' = Append(log, Request("xpan/file?method=download", access_token,
                                       [path |-> "file_path"], resp))
         /\ IF resp.exc
            THEN pc' = "done" /\ result' = Raise(TransportError)
                 /\ UNCHANGED download_link
            ELSE IF op = "get_download_link"
            THEN pc' = "done" /\ result' = Return([str |-> link])
                 /\ UNCHANGED download_link
            ELSE IF Falsy(link)
            THEN pc' = "done" /\ result' = Return([bool |-> FALSE])
                 /\ UNCHANGED download_link
            ELSE pc' = "body" /\ result' = NoResult /\ download_link' = link
    /\ UNCHANGED <<client_vars, now, op, last_refresh, upload_vars, local_dir,
                   local_file, body, received>>

RequestBody_uncaught(responses) ==
    /\ pc = "body"
    /\ \E resp \in responses, made \in BOOLEAN, opened \in BOOLEAN :
         /\ log' = Append(log, Request(download_link, Absent, [stream |-> TRUE], resp))
         /\ IF resp.exc
            THEN pc' = "done" /\ result' = Raise(TransportError)
                 /\ UNCHANGED <<local_dir, local_file, body>>
            ELSE IF resp.status # 200 \/ ~made
            THEN pc' = "done" /\ result' = Return([bool |-> FALSE])
                 /\ UNCHANGED <<local_dir, local_file, body>>
            ELSE IF ~opened
            THEN pc' = "done" /\ result' = Return([bool |-> FALSE])
                 /\ local_dir' = TRUE /\ UNCHANGED <<local_file, body>>
            ELSE pc' = "stream" /\ result' = NoResult
                 /\ local_dir' = TRUE
                 /\ local_file' = [exists |-> TRUE, old |-> FALSE, blocks |-> 0,
                                   content |-> <<>>]
                 /\ body' = resp.json.content
    /\ UNCHANGED <<client_vars, now, op, last_refresh, upload_vars, download_link,
                   received>>

\* download_file: the body request, os.makedirs and open(local_path, 'wb'),
\* the vendor's answer being one of responses
RequestBody(responses) ==
    /\ pc = "body"
    /\ \E resp \in responses, made \in BOOLEAN, opened \in BOOLEAN :
         /\ log' = Append(log, Request(download_link, Absent, [stream |-> TRUE], resp))
         /\ IF resp.exc \/ resp.status # 200
            THEN pc' = "done" /\ result' = Return([bool |-> FALSE])
                 /\ UNCHANGED <<local_dir, local_file, body>>
            ELSE IF ~made
            THEN pc' = "done" /\ result' = Return([bool |-> FALSE])
                 /\ UNCHANGED <<local_dir, local_file, body>>
            ELSE IF ~opened
            THEN pc' = "done" /\ result' = Return([bool |-> FALSE])
                 /\ local_dir' = TRUE /\ UNCHANGED <<local_file, body>>
            ELSE pc' = "stream" /\ result' = NoResult
                 /\ local_dir' = TRUE
                 /\ local_file' = [exists |-> TRUE, old |-> FALSE, blocks |-> 0,
                                   content |-> <<>>]
                 /\ body' = resp.json.content
    /\ UNCHANGED <<client_vars, now, op, last_refresh, upload_vars, download_link,
                   received>>

request_body == RequestBody(BodyResponses)

write_block_unwritten ==
    /\ pc = "stream"
    /\ received < NBlocks(body, DefaultChunkSize)
    /\ received' = received + 1
    /\ UNCHANGED <<client_vars, now, op, pc, result, log, last_refresh, upload_vars,
                   download_link, local_dir, local_file, body>>

\* download_file: one turn of the loop over response.iter_content; f.write
\* writes the block or raises
write_block ==
    /\ pc = "stream"
    /\ received < NBlocks(body, DefaultChunkSize)
    /\ received' = received + 1
    /\ LET chunk == Block(body, received, DefaultChunkSize) IN
       \E written \in BOOLEAN :
          IF Size(chunk) = 0
          THEN UNCHANGED <<pc, result, local_file>>
          ELSE IF written
          THEN /\ local_file' = [local_file EXCEPT !.blocks = @ + 1,
                                                   !.content = @ \o chunk]
               /\ UNCHANGED <<pc, result>>
          ELSE pc' = "done" /\ result' = Return([bool |-> FALSE])
               /\ UNCHANGED local_file
    /\ UNCHANGED <<client_vars, now, op, log, last_refresh, upload_vars,
                   download_link, local_dir, body>>

end_stream_cleanup ==
    /\ pc = "stream"
    /\ result' = Return([bool |-> received = NBlocks(body, DefaultChunkSize)])
    /\ local_file' = IF received = NBlocks(body, DefaultChunkSize)
                     THEN local_file ELSE NoLocalFile
    /\ pc' = "done"
    /\ UNCHANGED <<client_vars, now, op, log, last_refresh, upload_vars,
                   download_link, local_dir, body, received>>

\* download_file: the iterator is exhausted (return True), or it raises while
\* blocks of the body are still to come (return False)
end_stream ==
    /\ pc = "stream"
    /\ result' = Return([bool |-> received = NBlocks(body, DefaultChunkSize)])
    /\ pc' = "done"
    /\ UNCHANGED <<client_vars, now, op, log, last_refresh, upload_vars, download_vars>>

\* The call in progress hands its result to the caller; its frame is gone.
Finish ==
    /\ pc = "done"
    /\ pc' = "idle"
    /\ op' = "none"
    /\ result' = NoResult
    /\ log' = <<>>
    /\ NoUpload /\ NoDownload
    /\ UNCHANGED <<client_vars, now, last_refresh>>

Next ==
    \/ Tick /\ Fixed
    \/ Finish /\ Fixed
    \/ get_auth_url /\ Fixed
    \/ get_access_token /\ Fixed
    \/ call_refresh_access_token /\ Fixed
    \/ \E o \in PassThroughOps : Begin(o) /\ Fixed
    \/ SendRequest /\ Fixed
    \/ upload_file /\ Fixed
    \/ upload_no_file /\ Fixed
    \/ upload_small_file /\ Fixed
    \/ precreate_file /\ Fixed
    \/ upload_chunk /\ Fixed
    \/ create_file /\ Fixed
    \/ get_download_link /\ Fixed
    \/ download_file /\ Fixed
    \/ request_download_link /\ Fixed
    \/ request_body /\ Fixed
    \/ write_block /\ Fixed
    \/ end_stream /\ Fixed

Spec == Init /\ [][Next]_vars

(***************************************************************************)
(* The OAuth entry points, for clients of either app key.                  *)
(***************************************************************************)
InitAuth ==
    /\ Constructed
    /\ app_key \in AppKeys
    /\ NoVendor
    /\ NoThreads

NextAuth ==
    \/ Tick /\ Fixed
    \/ Finish /\ Fixed
    \/ get_auth_url /\ Fixed
    \/ get_access_token /\ Fixed
    \/ call_refresh_access_token /\ Fixed

SpecAuth == InitAuth /\ [][NextAuth]_vars

(***************************************************************************)
(* Upload and download against a vendor that stores what it receives: the  *)
(* whole body of a direct upload, the chunks of a chunked upload by their  *)
(* partseq, put together in the order of partseq at the finalize request.  *)
(* Every request is answered without error, the local file system works    *)
(* and the client holds a token that needs no refresh.                     *)
(***************************************************************************)
InitRoundTrip ==
    /\ Constructed
    /\ access_token = "A0"
    /\ app_key = "app_key_1"
    /\ NoVendor
    /\ NoThreads

Assemble(ps) == [i \in 1..(MaxBlocks + 1) |-> ps[i - 1]]
Sent == Last(log').params
KeepClient == UNCHANGED <<app_key, thread_vars>>

StartUpload ==
    /\ upload_file
    /\ file'.exists
    /\ parts' = NoParts
    /\ UNCHANGED <<uploaded, remote>>
    /\ KeepClient

StoreBody ==
    /\ upload_small_file
    /\ Succeeded(Last(log'))
    /\ remote' = [stored |-> TRUE, content |-> <<Sent.file>>]
    /\ uploaded' = file
    /\ UNCHANGED parts
    /\ KeepClient

IssueUploadId ==
    /\ precreate_file
    /\ pc' = "chunk"
    /\ UNCHANGED vendor_vars
    /\ KeepClient

StoreChunk ==
    /\ upload_chunk
    /\ Succeeded(Last(log'))
    /\ parts' = [parts EXCEPT ![Sent.partseq] = Sent.file]
    /\ UNCHANGED <<uploaded, remote>>
    /\ KeepClient

StoreFile ==
    /\ create_file
    /\ Succeeded(Last(log'))
    /\ remote' = [stored |-> TRUE, content |-> Assemble(parts)]
    /\ uploaded' = file
    /\ UNCHANGED parts
    /\ KeepClient

StartDownload ==
    /\ remote.stored
    /\ download_file
    /\ UNCHANGED vendor_vars
    /\ KeepClient

ServeLink ==
    /\ request_download_link
    /\ pc' = "body"
    /\ UNCHANGED vendor_vars
    /\ KeepClient

ServeBody ==
    /\ RequestBody({Answer(200, [content |-> remote.content])})
    /\ pc' = "stream"
    /\ UNCHANGED vendor_vars
    /\ KeepClient

ServeBlock ==
    /\ write_block
    /\ pc' = "stream"
    /\ UNCHANGED vendor_vars
    /\ KeepClient

EndBody ==
    /\ end_stream
    /\ result' = Return([bool |-> TRUE])
    /\ UNCHANGED vendor_vars
    /\ KeepClient

NextRoundTrip ==
    \/ StartUpload
    \/ StoreBody
    \/ IssueUploadId
    \/ StoreChunk
    \/ StoreFile
    \/ StartDownload
    \/ ServeLink
    \/ ServeBody
    \/ ServeBlock
    \/ EndBody
    \/ Finish /\ UNCHANGED vendor_vars /\ KeepClient

SpecRoundTrip == InitRoundTrip /\ [][NextRoundTrip]_vars

(***************************************************************************)
(* Two threads call token-gated methods of one client.  A thread runs      *)
(* _check_token and refresh_access_token statement by statement, and the   *)
(* other thread may run between any two of them.  The vendor replaces the  *)
(* refresh token with every refresh it grants and refuses a refresh token  *)
(* it has replaced.  With locking, a caller holds one mutex from before    *)
(* _check_token until _check_token has returned or raised.                 *)
(***************************************************************************)
RotatedTokens == <<"R2", "R3", "R4", "R5">>

InitRace ==
    /\ Constructed
    /\ app_key = "app_key_1"
    /\ NoVendor
    /\ callers = [t \in Threads |-> IdleCaller]
    /\ lock = 0
    /\ locking \in BOOLEAN
    /\ valid_rt = refresh_token
    /\ issued = 0

AllIdle == \A t \in Threads : callers[t].pc = "idle"
InCheck(t) == callers[t].pc \in {"check", "refresh", "send", "await"}

\* The callers' mutex
Acquire(t) ==
    /\ locking => lock = 0
    /\ lock' = IF locking THEN t ELSE lock
Release(t) == lock' = IF lock = t THEN 0 ELSE lock

KeepCall ==
    UNCHANGED <<op, pc, result, log, last_refresh, upload_vars, download_vars,
                app_key, vendor_vars, locking>>

\* The main thread authorises the client before the callers start.
Authorize ==
    /\ AllIdle
    /\ get_access_token
    /\ valid_rt' = refresh_token'
    /\ UNCHANGED <<app_key, vendor_vars, callers, lock, locking, issued>>

\* A thread calls a token-gated method.
thread_call(t) ==
    /\ Idle
    /\ callers[t].pc = "idle"
    /\ Acquire(t)
    /\ callers' = [callers EXCEPT ![t].pc = "check"]
    /\ UNCHANGED <<client_vars, now, valid_rt, issued>>
    /\ KeepCall

\* _check_token: the test of the access token and of the expiry
thread_test(t) ==
    /\ callers[t].pc = "check"
    /\ IF Falsy(access_token)
       THEN callers' = [callers EXCEPT ![t] = IdleCaller] /\ Release(t)
       ELSE IF NearExpiry(token_expire_time, now) /\ auto_refresh
       THEN /\ callers' = [callers EXCEPT ![t].pc = "refresh",
                                          ![t].expiry = token_expire_time]
            /\ UNCHANGED lock
       ELSE callers' = [callers EXCEPT ![t].pc = "request"] /\ Release(t)
    /\ UNCHANGED <<client_vars, now, valid_rt, issued>>
    /\ KeepCall

\* refresh_access_token: the test of the refresh token, and params
thread_params(t) ==
    /\ callers[t].pc = "refresh"
    /\ IF Falsy(refresh_token)
       THEN callers' = [callers EXCEPT ![t] = IdleCaller] /\ Release(t)
       ELSE /\ callers' = [callers EXCEPT ![t].pc = "send",
                                          ![t].params = refresh_token]
            /\ UNCHANGED lock
    /\ UNCHANGED <<client_vars, now, valid_rt, issued>>
    /\ KeepCall

\* refresh_access_token: session.get hands the request to the network
thread_send(t) ==
    /\ callers[t].pc = "send"
    /\ callers' = [callers EXCEPT ![t].pc = "await",
                                  ![t].stale = (callers[t].params # valid_rt)]
    /\ UNCHANGED <<client_vars, now, lock, valid_rt, issued>>
    /\ KeepCall

\* What the vendor answers to a refresh request that carries token
RaceAnswers(token) ==
    {Failed}
    \cup (IF token # valid_rt THEN {Answer(200, [error |-> "invalid_grant"])}
          ELSE IF issued < MaxRefreshes
          THEN {Answer(200, [access_token |-> "A1",
                             refresh_token |-> RotatedTokens[issued + 1],
                             expires_in |-> e]) : e \in ExpiresInValues}
          ELSE {})

\* refresh_access_token: the response arrives and is stored
thread_store(t) ==
    /\ callers[t].pc = "await"
    /\ \E resp \in RaceAnswers(callers[t].params) :
         IF resp.exc
         THEN /\ callers' = [callers EXCEPT ![t] = IdleCaller]
              /\ UNCHANGED <<client_vars, valid_rt, issued>>
         ELSE /\ SetCreds(store_refreshed(Creds, now, resp.json))
              /\ callers' = [callers EXCEPT ![t].pc = "request",
                                            ![t].refreshed = TRUE]
              /\ IF "refresh_token" \in DOMAIN resp.json
                 THEN valid_rt' = resp.json.refresh_token /\ issued' = issued + 1
                 ELSE UNCHANGED <<valid_rt, issued>>
    /\ Release(t)
    /\ UNCHANGED now
    /\ KeepCall

\* The method's own request, and its return
thread_request(t) ==
    /\ callers[t].pc = "request"
    /\ callers' = [callers EXCEPT ![t] = IdleCaller]
    /\ UNCHANGED <<client_vars, now, lock, valid_rt, issued>>
    /\ KeepCall

NextRace ==
    \/ Tick /\ Fixed
    \/ Authorize
    \/ Finish /\ AllIdle /\ Fixed
    \/ \E t \in Threads : thread_call(t)
    \/ \E t \in Threads : thread_test(t)
    \/ \E t \in Threads : thread_params(t)
    \/ \E t \in Threads : thread_send(t)
    \/ \E t \in Threads : thread_store(t)
    \/ \E t \in Threads : thread_request(t)

SpecRace == InitRace /\ [][NextRace]_vars

(***************************************************************************)
(* Vocabulary of the properties.                                           *)
(***************************************************************************)
Count(l, P(_)) == Len(SelectSeq(l, P))
IsCheck(e) == e.ev = "check"
IsRefreshRequest(e) ==
    /\ IsRequest(e)
    /\ "grant_type" \in DOMAIN e.params
    /\ e.params.grant_type = "refresh_token"
\* This step is a call of _check_token: the first step of a gated method.
CheckStep == pc = "idle" /\ log' # <<>> /\ IsCheck(log'[1])
\* This step sends a refresh request.
NewRefresh == Count(log', IsRefreshRequest) > Count(log, IsRefreshRequest)
\* This step sends a request that carries the access token.
NewTokenRequest == Len(log') > Len(log) /\ CarriesToken(Last(log'))
\* The expiry is known and the clock within 60 seconds of it, or past it.
WithinMargin == token_expire_time # 0 /\ now >= token_expire_time - 60

(***************************************************************************)
(* C1: a token-gated operation called while the client has no access token *)
(* (None or empty) fails with the missing-access-token error, and no       *)
(* network request has been issued when it fails.                          *)
(***************************************************************************)
C1_NoTokenFailsLocally ==
    (op \in GatedOps /\ Falsy(access_token)) =>
        /\ pc = "done"
        /\ result = Raise(NoAccessToken)
        /\ Len(Requests(log)) = 0

C1_Witness ==
    /\ op = "download_file"
    /\ access_token = ""
    /\ result = Raise(NoAccessToken)

(***************************************************************************)
(* C2: with auto-refresh enabled, once a refresh made at time T has stored *)
(* a token with expires_in = E, a token validity check made at time t      *)
(* sends a refresh request exactly when t >= T + E - 60.                   *)
(***************************************************************************)
C2_RefreshBoundary ==
    [][(CheckStep /\ auto_refresh /\ last_refresh.known) =>
          (NewRefresh <=>
             now >= last_refresh.at + last_refresh.expires_in - 60)]_vars

C2_Witness ==
    /\ op \in GatedOps
    /\ auto_refresh
    /\ last_refresh.known
    /\ last_refresh.at < now
    /\ now = last_refresh.at + last_refresh.expires_in - 60
    /\ Count(log, IsRefreshRequest) = 1
    /\ "error" \in DOMAIN Last(log).resp.json
    /\ pc = "request"

(***************************************************************************)
(* C3 as stated: a token validity check sends a refresh request if and     *)
(* only if the expiry is known, the clock is within 60 seconds of it or    *)
(* past it, and auto-refresh is enabled; no other step of a gated          *)
(* operation sends one.                                                    *)
(***************************************************************************)
C3_Original ==
    [][op' \in GatedOps =>
          (NewRefresh <=> (CheckStep /\ WithinMargin /\ auto_refresh))]_vars

(***************************************************************************)
(* C3 amended: the check sends the refresh request if and only if the      *)
(* three conditions hold and a refresh token is set.                       *)
(***************************************************************************)
C3_RefreshIffNeededAndPossible ==
    [][op' \in GatedOps =>
          (NewRefresh <=> (CheckStep /\ WithinMargin /\ auto_refresh
                             /\ ~Falsy(refresh_token)))]_vars

C3_Witness ==
    /\ op \in GatedOps
    /\ ~auto_refresh
    /\ WithinMargin
    /\ pc = "request"
    /\ Count(log, IsRefreshRequest) = 0

(***************************************************************************)
(* C4: refresh_access_token called while no refresh token is set fails     *)
(* with the missing-refresh-token error, sends no request and leaves the   *)
(* access token, the refresh token and the expiry as they were; when the   *)
(* validity check of a gated operation calls it, within 60 seconds of the  *)
(* expiry, the operation ends there with that error and no request.        *)
(***************************************************************************)
C4_NoRefreshTokenFailsLocally ==
    [][(/\ Falsy(refresh_token)
        /\ \/ pc = "idle" /\ op' = "refresh_access_token"
           \/ CheckStep /\ ~Falsy(access_token) /\ WithinMargin /\ auto_refresh)
       => /\ pc' = "done"
          /\ result' = Raise(NoRefreshToken)
          /\ Len(Requests(log')) = 0
          /\ access_token' = access_token
          /\ refresh_token' = refresh_token
          /\ token_expire_time' = token_expire_time]_vars

C4_Witness ==
    /\ op = "upload_file"
    /\ pc = "done"
    /\ result = Raise(NoRefreshToken)
    /\ WithinMargin
    /\ Len(Requests(log)) = 0

(***************************************************************************)
(* C5: a refresh whose response contains an access token stores that       *)
(* access token; it stores the response's refresh token if there is one    *)
(* and keeps the old one otherwise; and it sets the expiry to the time of  *)
(* the refresh plus the response's expires_in.                             *)
(***************************************************************************)
C5_RefreshStores ==
    [][(NewRefresh /\ ~Last(log').resp.exc
          /\ "access_token" \in DOMAIN Last(log').resp.json)
       => LET res == Last(log').resp.json IN
          /\ access_token' = res.access_token
          /\ refresh_token' = IF "refresh_token" \in DOMAIN res
                              THEN res.refresh_token ELSE refresh_token
          /\ "expires_in" \in DOMAIN res =>
                 token_expire_time' = now + res.expires_in]_vars

C5_Witness ==
    /\ op = "refresh_access_token"
    /\ result.kind = "return"
    /\ DOMAIN result.value = {"access_token", "expires_in"}
    /\ access_token = result.value.access_token
    /\ refresh_token = "R0"
    /\ token_expire_time = now + result.value.expires_in

(***************************************************************************)
(* C6 as stated: every request that carries the access token is preceded   *)
(* by a token validity check made for that request (no other such request  *)
(* lies between the check and it), also inside a multi-request operation,  *)
(* and with auto-refresh enabled none is sent while the expiry is within   *)
(* 60 seconds of the clock.                                                *)
(***************************************************************************)
CheckedFor(l, i) ==
    \E j \in 1..(i - 1) :
        IsCheck(l[j]) /\ \A k \in (j + 1)..(i - 1) : ~CarriesToken(l[k])

C6_Original ==
    [][NewTokenRequest =>
          /\ CheckedFor(log', Len(log'))
          /\ ~(auto_refresh /\ WithinMargin)]_vars

(***************************************************************************)
(* C6 amended: every request that carries the access token is preceded in  *)
(* its call by a token validity check, the only one of the call and its    *)
(* first event; the later requests of a call are sent without a check of   *)
(* their own.                                                              *)
(***************************************************************************)
C6_OneCheckPerCall ==
    \A i \in 1..Len(log) :
        CarriesToken(log[i]) =>
            /\ i > 1
            /\ IsCheck(log[1])
            /\ Count(log, IsCheck) = 1

C6_Witness ==
    /\ op = "upload_file"
    /\ Len(block_list) = 2
    /\ Count(log, CarriesToken) = 3
    /\ Count(log, IsCheck) = 1
    /\ auto_refresh /\ WithinMargin

(***************************************************************************)
(* The requests of upload_file, told apart as the vendor tells them apart: *)
(* by the endpoint and the parameters sent.                                *)
(***************************************************************************)
IsDirect(e) ==
    IsRequest(e) /\ e.api = "xpan/file?method=upload" /\ "partseq" \notin DOMAIN e.params
IsChunk(e) ==
    IsRequest(e) /\ e.api = "xpan/file?method=upload" /\ "partseq" \in DOMAIN e.params
IsPrecreate(e) == IsRequest(e) /\ e.api = "xpan/file?method=precreate"
IsFinalize(e) ==
    IsRequest(e) /\ e.api = "xpan/file?method=create" /\ "uploadid" \in DOMAIN e.params
TokenRequests == SelectSeq(log, CarriesToken)
Chunks == SelectSeq(log, IsChunk)
ChunksOf(s) == (s + 4194304 - 1) \div 4194304

(***************************************************************************)
(* C7: upload_file on an existing file, once the token check has passed,   *)
(* picks its path by the size alone: up to and including 4,194,304 bytes   *)
(* it makes exactly one direct upload request and no precreate, chunk or   *)
(* finalize request; above, it makes the precreate request and never the   *)
(* direct one.                                                             *)
(***************************************************************************)
C7_PathBySize ==
    (op = "upload_file" /\ file.exists) =>
        IF file.size <= 4194304
        THEN /\ Count(log, IsPrecreate) = 0
             /\ Count(log, IsChunk) = 0
             /\ Count(log, IsFinalize) = 0
             /\ Count(log, IsDirect) = IF pc = "done" THEN 1 ELSE 0
        ELSE /\ Count(log, IsDirect) = 0
             /\ Count(log, IsPrecreate) = IF pc = "precreate" THEN 0 ELSE 1

C7_Witness ==
    /\ op = "upload_file"
    /\ file.size = 4194304
    /\ pc = "done"
    /\ Count(log, IsDirect) = 1
    /\ Last(log).params.file.len = 4194304

(***************************************************************************)
(* C8: in a chunked upload of s > 4 MiB bytes in which every vendor call   *)
(* succeeds, ceil(s / 4 MiB) chunk requests are made, the i-th carrying    *)
(* the i-th 4 MiB of the file and the last the s - 4 MiB * (n - 1) bytes   *)
(* left, and the finalize request's hash list is the hashes of those       *)
(* chunks, one each, in the order read.                                    *)
(***************************************************************************)
C8_ChunksAndHashes ==
    (/\ op = "upload_file"
     /\ Count(log, IsFinalize) = 1
     /\ \A i \in 1..Len(TokenRequests) : Succeeded(TokenRequests[i]))
    => LET s == file.size
           n == ChunksOf(s)
           hashes == Last(log).params.block_list
       IN  /\ s > 4194304
           /\ Len(Chunks) = n
           /\ \A i \in 1..n :
                 Chunks[i].params.file =
                     [off |-> 4194304 * (i - 1),
                      len |-> IF i < n THEN 4194304 ELSE s - 4194304 * (n - 1)]
           /\ Len(hashes) = n
           /\ \A i \in 1..n : hashes[i] = hashlib_md5(Chunks[i].params.file)

C8_Witness ==
    /\ op = "upload_file"
    /\ file.size = 4194304 + 1
    /\ Count(log, IsFinalize) = 1
    /\ Succeeded(Last(log))
    /\ Len(Chunks) = 2
    /\ Chunks[2].params.file.len = 1
    /\ Len(Last(log).params.block_list) = 2

(***************************************************************************)
(* C9: the requests of a chunked upload go out in the order precreate,     *)
(* chunk 0, chunk 1, ... and at most one finalize, the sequence indexes    *)
(* rising by one from 0; a chunk is sent only after a precreate response   *)
(* that gave an upload id, the finalize only after every chunk of the file *)
(* was uploaded without error, and each chunk and the finalize carry that  *)
(* precreate's upload id.                                                  *)
(***************************************************************************)
C9_ChunkedOrder ==
    (op = "upload_file" /\ file.size > 4194304 /\ TokenRequests # <<>>) =>
        LET T == TokenRequests
            pre == T[1].resp
        IN  /\ IsPrecreate(T[1])
            /\ \A i \in 2..Len(T) :
                  /\ \/ IsChunk(T[i]) /\ T[i].params.partseq = i - 2
                     \/ IsFinalize(T[i]) /\ i = Len(T)
                  /\ ~pre.exc
                  /\ "errno" \in DOMAIN pre.json => pre.json.errno = 0
                  /\ "uploadid" \in DOMAIN pre.json
                  /\ pre.json.uploadid # ""
                  /\ T[i].params.uploadid = pre.json.uploadid
            /\ IsFinalize(Last(T)) =>
                  /\ Len(T) = ChunksOf(file.size) + 2
                  /\ \A i \in 2..(Len(T) - 1) : Succeeded(T[i])

C9_Witness ==
    /\ op = "upload_file"
    /\ Len(Chunks) = 3
    /\ Chunks[3].params.partseq = 2
    /\ Chunks[3].params.uploadid = "U2"
    /\ IsFinalize(Last(log))

(***************************************************************************)
(* C10: when the vendor answers a chunk with a non-zero errno, that chunk  *)
(* is the last request of the upload (no later chunk, no retry, no         *)
(* finalize) and upload_file returns that answer's payload.                *)
(***************************************************************************)
C10_ChunkErrorAborts ==
    op = "upload_file" =>
        \A i \in 1..Len(log) :
            (/\ IsChunk(log[i])
             /\ ~log[i].resp.exc
             /\ "errno" \in DOMAIN log[i].resp.json
             /\ log[i].resp.json.errno # 0)
            => /\ i = Len(log)
               /\ pc = "done"
               /\ result = Return(log[i].resp.json)

C10_Witness ==
    /\ op = "upload_file"
    /\ file.size = 3 * 4194304
    /\ pc = "done"
    /\ IsChunk(Last(log))
    /\ Last(log).params.partseq = 1
    /\ result = Return([errno |-> 31064, request_id |-> Len(log)])

(***************************************************************************)
(* C11: in a chunked upload, a precreate answer with a non-zero errno is   *)
(* the last request of the upload: upload_file returns that payload        *)
(* unchanged, and no chunk request and no finalize request is sent.        *)
(***************************************************************************)
PrecreateAnswered(e) == IsPrecreate(e) /\ ~e.resp.exc

C11_PrecreateErrorReturned ==
    op = "upload_file" =>
        \A i \in 1..Len(log) :
            (/\ PrecreateAnswered(log[i])
             /\ "errno" \in DOMAIN log[i].resp.json
             /\ log[i].resp.json.errno # 0)
            => /\ i = Len(log)
               /\ pc = "done"
               /\ result = Return(log[i].resp.json)
               /\ Count(log, IsChunk) = 0
               /\ Count(log, IsFinalize) = 0

C11_Witness ==
    /\ op = "upload_file"
    /\ file.size = 2 * 4194304
    /\ pc = "done"
    /\ IsPrecreate(Last(log))
    /\ result = Return([errno |-> 31064, request_id |-> Len(log)])

(***************************************************************************)
(* C12: a precreate answer that reports no error but holds no upload id.   *)
(***************************************************************************)
NoUploadId(e) ==
    /\ PrecreateAnswered(e)
    /\ ("errno" \in DOMAIN e.resp.json => e.resp.json.errno = 0)
    /\ ("uploadid" \in DOMAIN e.resp.json => e.resp.json.uploadid = "")

\* C12 as the specification states it: a precreate answer without an upload
\* id makes upload_file raise an error, and no chunk or finalize request is
\* sent.
C12_Original ==
    (op = "upload_file" /\ log # <<>> /\ NoUploadId(Last(log)))
    => /\ pc = "done"
       /\ result.kind = "raise"

\* C12, amended: a precreate answer that reports no error but holds no upload
\* id (missing or empty) makes upload_file return, not raise, the payload
\* {"errno": -1, "errmsg": ...} it builds itself; that precreate request is
\* the last request of the upload, so no chunk or finalize request is sent.
C12_NoUploadIdReturned ==
    op = "upload_file" =>
        \A i \in 1..Len(log) :
            NoUploadId(log[i])
            => /\ i = Len(log)
               /\ pc = "done"
               /\ result.kind = "return"
               /\ DOMAIN result.value = {"errno", "errmsg"}
               /\ result.value.errno = -1
               /\ Count(log, IsChunk) = 0
               /\ Count(log, IsFinalize) = 0

C12_Witness ==
    /\ op = "upload_file"
    /\ pc = "done"
    /\ IsPrecreate(Last(log))
    /\ Last(log).resp.json = [errno |-> 0, uploadid |-> "", request_id |-> Len(log)]
    /\ result.kind = "return"
    /\ result.value.errno = -1

(***************************************************************************)
(* C13: upload_file raises FileNotFoundError for a local path that is not  *)
(* a file before any network request is issued, in every state in which    *)
(* the access token is set.                                                *)
(***************************************************************************)
C13_Original ==
    (op = "upload_file" /\ pc = "done" /\ result = Raise(FileNotFound))
    => Requests(log) = <<>>

(***************************************************************************)
(* C14: download_file and exceptions.                                      *)
(***************************************************************************)
IsLinkRequest(e) == IsRequest(e) /\ e.api = "xpan/file?method=download"
IsBodyRequest(e) == IsRequest(e) /\ "stream" \in DOMAIN e.params
False == Return([bool |-> FALSE])
True == Return([bool |-> TRUE])

C15_PassThrough ==
    [][op' \in PassThroughOps =>
        /\ (pc = "idle" /\ Count(log', IsRefreshRequest) = 0)
           => UNCHANGED client_vars
        /\ (pc = "request" /\ pc' = "done" /\ log = <<CheckEvent>>)
           => /\ Len(Requests(log')) = 1
              /\ Last(log').api = Api(op)
              /\ UNCHANGED client_vars
              /\ ~Last(log').resp.exc => result' = Return(Last(log').resp.json)
    ]_vars

C15_Witness ==
    /\ op = "cancel_share"
    /\ pc = "done"
    /\ Len(log) = 2
    /\ log[1] = CheckEvent
    /\ result = Return([errno |-> 31064, request_id |-> 2])

(***************************************************************************)
(* C16: two threads that call token-gated methods of one client near the   *)
(* expiry of its token.  With the callers' mutex around the validity check *)
(* and the refresh, the two threads are never both between the expiry test *)
(* and the storing of a refresh response, and no refresh request is sent   *)
(* with a refresh token that an earlier response has replaced.  Without    *)
(* the mutex that state is reached (C16_Witness): both threads pass the    *)
(* test of one expiry, the first stores its response, and the second sends *)
(* its request with the replaced token.                                    *)
(***************************************************************************)
C16_MutexExcludesRace ==
    locking =>
        /\ \A t \in Threads : ~callers[t].stale
        /\ ~(InCheck(1) /\ InCheck(2))

C16_Witness ==
    /\ ~locking
    /\ token_expire_time > 0
    /\ callers[1].refreshed
    /\ callers[2].pc = "await"
    /\ callers[2].stale
    /\ callers[2].expiry = callers[1].expiry
    /\ callers[2].params # refresh_token
    /\ issued = 1

(***************************************************************************)
(* C17: against the storing vendor, a download that follows the upload of  *)
(* a file writes a local file whose bytes are those of the uploaded file,  *)
(* for files of the direct path (size <= 4 MiB) and of the chunked path    *)
(* (size > 4 MiB).                                                         *)
(***************************************************************************)
RECURSIVE Normal(_)
Normal(c) ==
    IF c = <<>> THEN <<>>
    ELSE IF Head(c).len = 0 THEN Normal(Tail(c))
    ELSE LET r == Normal(Tail(c)) IN
         IF r # <<>> /\ Head(c).off + Head(c).len = r[1].off
         THEN <<[off |-> Head(c).off, len |-> Head(c).len + r[1].len]>> \o Tail(r)
         ELSE <<Head(c)>> \o r
SameBytes(a, b) == Normal(a) = Normal(b)
WholeFile(f) == <<[off |-> 0, len |-> f.size]>>

C17_RoundTrip ==
    /\ remote.stored => SameBytes(remote.content, WholeFile(uploaded))
    /\ (op = "download_file" /\ pc = "done")
       => /\ result = Return([bool |-> TRUE])
          /\ local_file.exists
          /\ ~local_file.old
          /\ SameBytes(local_file.content, WholeFile(uploaded))

C17_Witness ==
    /\ op = "download_file"
    /\ pc = "done"
    /\ uploaded.size = 2 * 4194304 + 1
    /\ local_file.blocks = 9
    /\ Len(remote.content) = 4
    /\ result = Return([bool |-> TRUE])

(***************************************************************************)
(* C18: get_auth_url returns the authorize endpoint followed by exactly    *)
(* the query parameters client_id (the app key), response_type=code,       *)
(* redirect_uri (the argument) and scope (the argument, or basic,netdisk   *)
(* when none is given), in that order; it sends no request and leaves the  *)
(* credentials unchanged.                                                  *)
(***************************************************************************)
C18_AuthUrl ==
    [][(pc = "idle" /\ op' = "get_auth_url") =>
         LET call == log'[1]
             scope == IF call.scope = Absent THEN "basic,netdisk" ELSE call.scope
         IN
         /\ result' = Return([str |->
                <<"https://openapi.baidu.com/oauth/2.0/authorize", "?",
                  "client_id", "=", app_key, "&",
                  "response_type", "=", "code", "&",
                  "redirect_uri", "=", call.redirect_uri, "&",
                  "scope", "=", scope>>])
         /\ Requests(log') = <<>>
         /\ UNCHANGED client_vars
    ]_vars

C18_Witness ==
    /\ op = "get_auth_url"
    /\ pc = "done"
    /\ app_key = "app_key_2"
    /\ log[1].scope = Absent
    /\ log[1].redirect_uri = "oob"
    /\ Len(result.value.str) = 17
    /\ result.value.str[17] = "basic,netdisk"

(***************************************************************************)
(* C19: download_file with a valid token.  A link-resolution answer with a *)
(* status other than 200 or without a link (missing or empty) ends the     *)
(* call with false, without a body request and with the local directory    *)
(* and file as they were; so does a body answer with a status other than   *)
(* 200.  The call returns true only when the body request was answered 200 *)
(* and every block received was written to the local file.                 *)
(***************************************************************************)
NoLink(resp) ==
    /\ ~resp.exc
    /\ \/ resp.status # 200
       \/ "dlink" \notin DOMAIN resp.json
       \/ resp.json.dlink = ""

C19_DownloadSteps ==
    [][op = "download_file" =>
        /\ (pc = "dlink" /\ pc' # "dlink" /\ NoLink(Last(log').resp))
           => /\ pc' = "done"
              /\ result' = False
              /\ Count(log', IsBodyRequest) = 0
              /\ UNCHANGED <<local_dir, local_file>>
        /\ (pc = "body" /\ pc' # "body" /\ ~Last(log').resp.exc
            /\ Last(log').resp.status # 200)
           => /\ pc' = "done"
              /\ result' = False
              /\ UNCHANGED <<local_dir, local_file>>
        /\ (pc # "done" /\ pc' = "done" /\ result' = True)
           => /\ IsBodyRequest(Last(log'))
              /\ Last(log').resp.status = 200
              /\ received' = NBlocks(body', 1024 * 1024)
              /\ local_file'.exists
              /\ local_file'.blocks = received'
    ]_vars

C19_Witness ==
    /\ op = "download_file"
    /\ pc = "done"
    /\ IsLinkRequest(Last(log))
    /\ Last(log).resp.status = 404
    /\ result = False
    /\ local_dir
    /\ local_file = OldLocalFile

(***************************************************************************)
(* C20: when the body stream fails after k >= 0 blocks were written,       *)
(* download_file returns false and the local file stays on disk with       *)
(* exactly those k blocks, a proper prefix of the body: it is not deleted, *)
(* not emptied, and does not hold what it held before the call.            *)
(***************************************************************************)

C20_PartialFileStays ==
    [][(op = "download_file" /\ pc = "stream" /\ pc' = "done" /\ result' = False)
       => /\ local_file' = local_file
          /\ local_file'.exists
          /\ ~local_file'.old
          /\ SameBytes(local_file'.content,
                       Slice(body, 0, local_file'.blocks * 1024 * 1024))
          /\ Size(local_file'.content) < Size(body)
    ]_vars

C20_Witness ==
    /\ op = "download_file"
    /\ pc = "done"
    /\ result = False
    /\ local_file.exists
    /\ local_file.blocks = 1
    /\ received = 1
    /\ Size(body) = 1024 * 1024 + 1

(***************************************************************************)
(* C21: a refresh whose response holds no access token raises nothing and  *)
(* leaves the access token, the refresh token and the expiry as they were. *)
(* When the validity check of a token-gated operation made that refresh,   *)
(* the operation goes on, and a pass-through operation sends its request   *)
(* with the old access token.  The state it leaves is one in which the     *)
(* check of a token-gated call sends a refresh request, and it stays so    *)
(* while the credentials are not written; such a check sends exactly one.  *)
(* No token-gated call sends more than one refresh request.                *)
(***************************************************************************)
Refused(e) ==
    IsRefreshRequest(e) /\ ~e.resp.exc /\ "access_token" \notin DOMAIN e.resp.json
Refreshing ==
    /\ ~Falsy(access_token)
    /\ token_expire_time > 0
    /\ now >= token_expire_time - 60
    /\ auto_refresh
    /\ ~Falsy(refresh_token)

C21_RefusedRefresh ==
    [][/\ (NewRefresh /\ Refused(Last(log')))
          => /\ UNCHANGED <<access_token, refresh_token, token_expire_time>>
             /\ result'.kind # "raise"
             /\ op' = "refresh_access_token" => result' = Return(Last(log').resp.json)
             /\ op' \in GatedOps => (pc' # "done" /\ Refreshing')
             /\ op' \in PassThroughOps => pc' = "request"
       /\ (op \in PassThroughOps /\ pc = "request" /\ pc' = "done"
             /\ Refused(Last(log)))
          => /\ CarriesToken(Last(log'))
             /\ Last(log').access_token = access_token
             /\ UNCHANGED <<access_token, refresh_token, token_expire_time>>
       /\ (Refreshing /\ UNCHANGED client_vars) => Refreshing'
       /\ (CheckStep /\ op' \in GatedOps /\ Refreshing)
          => Count(log', IsRefreshRequest) = 1
       /\ op' \in GatedOps => Count(log', IsRefreshRequest) <= 1
    ]_vars

C21_Witness ==
    /\ op = "get_quota"
    /\ pc = "done"
    /\ Len(log) = 3
    /\ Refused(log[2])
    /\ log[3].access_token = "A1"
    /\ access_token = "A1"
    /\ Refreshing
    /\ result.kind = "return"

(***************************************************************************)
(* C22: the stored expiry is written only by get_access_token or a refresh *)
(* whose response holds both an access token and expires_in.  A refresh    *)
(* that stores a new access token from a response without expires_in       *)
(* leaves the expiry as it was.  A clock within 60 seconds of the expiry,  *)
(* or past it, stays so until a response with expires_in is stored, and    *)
(* with auto-refresh enabled every token validity check made in such a     *)
(* state runs the refresh again: it sends one refresh request, or fails    *)
(* with the missing-refresh-token error where no refresh token is stored.  *)
(***************************************************************************)
IsTokenRequest(e) == IsRequest(e) /\ e.api = "oauth/2.0/token"
Supplies(e, key) == ~e.resp.exc /\ key \in DOMAIN e.resp.json

C22_ExpiryOnlyWithExpiresIn ==
    [][/\ token_expire_time' # token_expire_time
          => /\ Len(log') > 0
             /\ IsTokenRequest(Last(log'))
             /\ Supplies(Last(log'), "access_token")
             /\ Supplies(Last(log'), "expires_in")
             /\ token_expire_time' = now + Last(log').resp.json.expires_in
       /\ (NewRefresh /\ Supplies(Last(log'), "access_token")
             /\ ~Supplies(Last(log'), "expires_in"))
          => /\ access_token' = Last(log').resp.json.access_token
             /\ token_expire_time' = token_expire_time
             /\ ~Falsy(refresh_token')
       /\ (WithinMargin /\ ~WithinMargin')
          => /\ Len(log') > 0
             /\ IsTokenRequest(Last(log'))
             /\ Supplies(Last(log'), "expires_in")
       /\ (CheckStep /\ op' \in GatedOps /\ WithinMargin /\ auto_refresh
             /\ ~Falsy(access_token))
          => IF Falsy(refresh_token)
             THEN result' = Raise(NoRefreshToken)
             ELSE Count(log', IsRefreshRequest) = 1
    ]_vars

C22_Witness ==
    /\ op \in GatedOps
    /\ pc = "request"
    /\ Len(log) = 2
    /\ IsRefreshRequest(log[2])
    /\ DOMAIN log[2].resp.json = {"access_token"}
    /\ access_token = "A1"
    /\ auto_refresh
    /\ WithinMargin
    /\ now > StartTime
====
